---- MODULE Spec2Model ----
(***************************************************************************)
(* Docker Container Monitor: the concurrent probe orchestrator             *)
(* (internal/docker/service.go CheckServices, monitor.go                   *)
(* executeLocalServiceCheck) and the delta-based CPU sampler               *)
(* (internal/docker/stats.go calcCPU, monitor.go calculateCPUPercent).     *)
(* Further commands of monitor.go: showStats, watchMode and the remote      *)
(* status over SSH (remoteStatus, internal/ssh/remote.go and ssh.go        *)
(* RemoteCmd); TailContainerLogs and StreamStats of internal/docker.       *)
(*                                                                         *)
(* Strings that the code splits are modelled as sequences of tokens; the   *)
(* separators ": ", ", ", ":" and "->" are tokens of their own and no      *)
(* other token contains a separator.                                       *)
(***************************************************************************)
EXTENDS Integers, Sequences, FiniteSets, TLC

\* ------------------------------------------------------------------ bounds
MaxLines == 2        \* container lines in one docker ps output
MaxMappings == 2     \* port entries in one docker ps output, all lines together
MaxThreshold == 1    \* largest classification threshold, in clock units
UintBits == 2        \* width of the unsigned counters of the sampler
MaxCPUs == 2         \* largest CPU count reported in a stats value
MaxContainers == 2   \* containers in one container list of showStats
MaxMem == 2          \* largest memory usage or limit in a stats value
MaxTicks == 2        \* times the watch interval elapses in one run
MaxSignals == 2      \* signals sent to the process in one run
\* Lines a container has logged.
MaxLogLines == 2
\* Sampling passes StreamStats may start.
MaxPasses == 2

\* ------------------------------------------------- the docker ps output
\* One entry of the {{.Ports}} column, as the docker CLI prints it.
TcpMapping == <<"0.0.0.0", ":", "8000", "->", "80/tcp">>
TcpMapping6 == <<":", ":", ":", "8000", "->", "80/tcp">>
UdpMapping == <<"0.0.0.0", ":", "5432", "->", "5432/udp">>
RangeMapping == <<"0.0.0.0", ":", "8000-8001", "->", "80-81/tcp">>
ExposedOnly == <<"6379/tcp">>

\* The {{.Ports}} columns the model draws from: no port, one entry of each
\* kind, and the dual-stack pair the daemon prints for a published port.
PortColumns == {<<>>, <<TcpMapping>>, <<TcpMapping6>>, <<UdpMapping>>,
                <<RangeMapping>>, <<ExposedOnly>>, <<TcpMapping, TcpMapping6>>}

\* The name printed for the container on the i-th line.
ContainerNames == <<"web", "db", "cache", "api">>

\* Tokens that are decimal numbers (the only valid URL ports).
DecimalTokens == {"8000", "5432"}

RECURSIVE JoinWith(_, _)
\* strings.Join at token level: the entries separated by the token sep.
JoinWith(entries, sep) ==
  IF entries = <<>> THEN <<>>
  ELSE IF Len(entries) = 1 THEN entries[1]
  ELSE entries[1] \o <<sep>> \o JoinWith(Tail(entries), sep)

\* A line of `docker ps --format "{{.Names}}: {{.Ports}}"`.
FormatLine(name, entries) == <<name, ": ">> \o JoinWith(entries, ", ")

RECURSIVE Concat(_)
\* The text of a token sequence.
Concat(toks) == IF toks = <<>> THEN "" ELSE toks[1] \o Concat(Tail(toks))

RECURSIVE Split(_, _)
\* strings.Split: the pieces between the occurrences of sep, at least one.
Split(toks, sep) ==
  IF toks = <<>> THEN << <<>> >>
  ELSE IF toks[1] = sep THEN << <<>> >> \o Split(Tail(toks), sep)
  ELSE LET rest == Split(Tail(toks), sep)
       IN  << <<toks[1]>> \o rest[1] >> \o Tail(rest)

\* Sequences over S of length at most n.
SeqUpTo(S, n) == UNION {[1..k -> S] : k \in 0..n}

RECURSIVE SumLen(_)
SumLen(ss) == IF ss = <<>> THEN 0 ELSE Len(ss[1]) + SumLen(Tail(ss))

\* The outputs of docker ps the model draws from: up to MaxLines container
\* lines, then the empty piece after the final newline.
DockerOutputs ==
  {[i \in 1..(Len(es) + 1) |->
       IF i <= Len(es) THEN FormatLine(ContainerNames[i], es[i]) ELSE <<>>] :
     es \in {x \in SeqUpTo(PortColumns, MaxLines) : SumLen(x) <= MaxMappings}}

\* ------------------------------------------------------------------ state
VARIABLES
  variant,    \* which orchestrator runs: "CheckServices" or "executeLocalServiceCheck"
  lines,      \* strings.Split(output, "\n") of the docker ps output
  threshold,  \* CheckServices' threshold parameter
  webhook,    \* CheckServices' webhook parameter ("" when not configured)
  mainpc,     \* position of the orchestrator's own goroutine
  li,         \* index of the line the scan loop is at
  pj,         \* index of the port entry the inner loop is at
  probes,     \* the probe goroutines launched, in launch order
  results,    \* the shared slice `results`
  mu,         \* sync.Mutex: 0 when free, else the probe that holds it
  wg,         \* sync.WaitGroup counter
  rendered,   \* what the presentation step read from `results`
  alertIdx,   \* index of the alert loop in `results`
  posts,      \* bodies of the http.Post calls made, in order
  postLog,    \* outcome of each http.Post call that has returned
  retErr,     \* the error the orchestrator returned ("" for nil)
  cpuFn,      \* which CPU percent function runs
  stats,      \* the types.StatsJSON value it is given
  cpupc,      \* position of the sampler
  cpuOut,     \* the float64 it returned, as a fraction num/den
  statFn,     \* which showStats of monitor.go runs
  useJSON,    \* showStats' --json flag
  containers, \* the container list showStats took, by Names[0]
  statpc,     \* position of showStats
  ci,         \* index of showStats' loop in `containers`
  batch,      \* showStats' slice of ContainerStat
  statOut,    \* what showStats wrote to standard output
  statErr,    \* the error showStats returned ("" for nil)
  watchFn,    \* which watchMode of monitor.go runs
  watchJSON,  \* watchMode's --json flag
  noClear,    \* watchMode's --no-clear flag
  interval,   \* watchMode's --interval flag, in seconds
  wpc,        \* position of watchMode
  tickerOn,   \* the ticker exists and has not been stopped
  notifyOn,   \* signal.Notify has registered sigChan
  tickDue,    \* a tick waits in ticker.C
  sigPending, \* a signal waits in sigChan
  ticks,      \* times the interval has elapsed since the ticker was made
  sigs,       \* interrupt or terminate signals sent to the process
  cycles,     \* sampling passes watchMode has started
  ticksTaken, \* ticks watchMode has received from ticker.C
  passLog,    \* outcome of each sampling pass that has ended
  screen,     \* what watchMode wrote to the terminal, in order
  watchErr,   \* what watchMode returned ("none" while it runs)
  sigAt,      \* position of watchMode when the first signal reached sigChan
  cyclesAtSig, \* passes started when the first signal reached sigChan
  remoteFn,   \* which remote command runs
  hostAlias,  \* its --host flag ("" when not given)
  userHost,   \* its first argument, user@host (<<>> when not given)
  keyFlag,    \* its -i flag (<<>> when not given)
  remoteJSON, \* its --json flag
  aliasCfg,   \* what ~/.ssh/config holds for the alias
  rpc,        \* position of the remote command
  resolved,   \* the client configuration and address it resolved
  resolveErr, \* the error of the resolution ("" for nil)
  conns,      \* connections dialled with success
  sessions,   \* sessions opened with success
  connState,  \* "none", "open" or "closed"
  sessState,  \* "none", "open" or "closed"
  defers,     \* the deferred Close calls, in the order they were deferred
  closeLog,   \* what has been closed, in order
  commands,   \* the command strings given to session.Run
  remoteErr,  \* the error the remote command returned ("" for nil)
  logClient,  \* TailContainerLogs' cli: "nil", "usable", or "down" (no daemon)
  logName,    \* its container argument
  logTail,    \* its tail argument
  logFollow,  \* its follow argument
  logWriter,  \* its out argument: "nil" or "stdout"
  logStore,   \* what the existing container has logged
  lpc,        \* position of TailContainerLogs
  logReader,  \* the reader of cli.ContainerLogs: "none", "open" or "closed"
  logServed,  \* what the reader still has to deliver
  logOut,     \* what was written to out
  logErr,     \* what TailContainerLogs returned ("none" while it runs, "" for nil)
  strJSON,    \* StreamStats' useJSON
  strIds,     \* StreamStats' containers
  spc,        \* position of StreamStats
  si,         \* index of its inner loop in `containers`
  strPasses,  \* sampling passes it has started
  ctxDone,    \* its context is cancelled
  passesAtCancel, \* passes started when the context was cancelled
  strOut      \* what it printed, in order

orchVars == <<variant, lines, threshold, webhook, mainpc, li, pj, probes,
              results, mu, wg, rendered, alertIdx, posts, postLog, retErr>>
cpuVars == <<cpuFn, stats, cpupc, cpuOut>>
statVars == <<statFn, useJSON, containers, statpc, ci, batch, statOut, statErr>>
watchVars == <<watchFn, watchJSON, noClear, interval, wpc, tickerOn, notifyOn,
               tickDue, sigPending, ticks, sigs, cycles, ticksTaken, passLog,
               screen, watchErr, sigAt, cyclesAtSig>>
remoteVars == <<remoteFn, hostAlias, userHost, keyFlag, remoteJSON, aliasCfg,
                rpc, resolved, resolveErr, conns, sessions, connState,
                sessState, defers, closeLog, commands, remoteErr>>
logVars == <<logClient, logName, logTail, logFollow, logWriter, logStore, lpc,
             logReader, logServed, logOut, logErr>>
streamVars == <<strJSON, strIds, spc, si, strPasses, ctxDone, passesAtCancel,
                strOut>>
vars == <<orchVars, cpuVars, statVars, watchVars, remoteVars, logVars, streamVars>>
\* What the steps of one command leave alone: the state of the other commands.
notOrch == <<cpuVars, statVars, watchVars, remoteVars, logVars, streamVars>>
notCPU == <<orchVars, statVars, watchVars, remoteVars, logVars, streamVars>>
notStat == <<orchVars, cpuVars, watchVars, remoteVars, logVars, streamVars>>
notWatch == <<orchVars, cpuVars, statVars, remoteVars, logVars, streamVars>>
notRemote == <<orchVars, cpuVars, statVars, watchVars, logVars, streamVars>>
notLog == <<orchVars, cpuVars, statVars, watchVars, remoteVars, streamVars>>
notStream == <<orchVars, cpuVars, statVars, watchVars, remoteVars, logVars>>

CS == "CheckServices"
ELSC == "executeLocalServiceCheck"

\* ---------------------------------------------- parsing of the port column
\* strings.Split(line, ": ")
LineParts(line) == Split(line, ": ")

\* The loop body runs for a line only when it splits in exactly two parts.
LineProbed(line) == Len(LineParts(line)) = 2

\* strings.Split(parts[1], ", ")
LinePorts(line) == Split(LineParts(line)[2], ", ")

\* What the inner loop does with one port entry: "launch", "skip" or "panic".
\* CheckServices indexes strings.Split(p, ":")[1] unchecked; the other
\* orchestrator requires one "->" and a ":" before it.
PortStep(v, p) ==
  IF v = CS
  THEN IF Len(Split(p, ":")) < 2 THEN "panic" ELSE "launch"
  ELSE IF Len(Split(p, "->")) # 2 THEN "skip"
       ELSE IF Len(Split(Split(p, "->")[1], ":")) < 2 THEN "skip"
       ELSE "launch"

\* The port text the probe is launched with.
PortText(v, p) ==
  IF v = CS THEN Split(p, ":")[2] ELSE Split(Split(p, "->")[1], ":")[2]

\* Whether "http://localhost:" followed by the port text parses as a URL:
\* the port must be empty or decimal.
ValidURL(port) == port = <<>> \/ (Len(port) = 1 /\ port[1] \in DecimalTokens)

\* ------------------------------------------------------------ probe outcomes
NoResp == [err |-> TRUE, code |-> 0, text |-> ""]
Responses == {[err |-> FALSE, code |-> 200, text |-> "200 OK"],
              [err |-> FALSE, code |-> 404, text |-> "404 Not Found"]}

\* http.Client.Timeout of the client a probe uses; 0 means no timeout
\* (http.Get uses http.DefaultClient).
ProbeTimeoutSeconds == 5
ClientTimeout(v) == IF v = ELSC THEN ProbeTimeoutSeconds ELSE 0

Status(fmt, code, text, ms) == [fmt |-> fmt, code |-> code, text |-> text, ms |-> ms]
Available == Status("available", 0, "", 0)
Unreachable == Status("unreachable", 0, "", 0)
RequestError == Status("request error", 0, "", 0)
\* The status variable of a probe that has not classified yet.
Pending == Status("", 0, "", 0)

\* The elapsed times a probe can observe, in clock units: below, at and
\* (for the smaller thresholds) above the threshold.
MaxElapsed == MaxThreshold

\* The comparison with <= in place of <.
WithinThresholdInclusive(elapsed, thr) == elapsed <= thr

\* The comparison of line 52: time.Since(start) < threshold.
WithinThreshold(elapsed, thr) == elapsed < thr

\* A classification that looks at the latency before the status code.
ClassifyLatencyFirst(resp, e1, e2, thr) ==
  IF resp.err THEN Unreachable
  ELSE IF WithinThreshold(e1, thr) THEN Available
  ELSE Status("%s (%v)", 0, resp.text, e2)

\* Lines 50-56 of CheckServices: e1 is the reading of time.Since(start) that
\* is compared, e2 the later reading that is formatted.
ClassifyCS(resp, e1, e2, thr) ==
  IF resp.err THEN Unreachable
  ELSE IF resp.code = 200 /\ WithinThreshold(e1, thr) THEN Available
  ELSE Status("%s (%v)", 0, resp.text, e2)

\* Lines 353-362 of executeLocalServiceCheck.
ClassifyELSC(resp) ==
  IF resp.err THEN Unreachable
  ELSE IF resp.code = 200 THEN Available
  ELSE Status("HTTP %d", resp.code, "", 0)

Result(cn, pr, st) == [container |-> cn, port |-> pr, status |-> st]

\* --------------------------------------------------------------- initial state
Thresholds == 0..MaxThreshold
Webhooks == {"", "http://hooks.example/alert"}

\* The sampler at rest, for the behaviours of the orchestrator.
CPUIdle ==
  /\ cpuFn = "none"
  /\ stats = [total |-> 0, preTotal |-> 0, system |-> 0, preSystem |-> 0, ncpu |-> 0]
  /\ cpupc = "idle"
  /\ cpuOut = [num |-> 0, den |-> 1]

\* showStats at rest, for the behaviours of the other commands.
StatIdle ==
  /\ statFn = "none"
  /\ useJSON = FALSE
  /\ containers = <<>>
  /\ statpc = "idle"
  /\ ci = 1
  /\ batch = <<>>
  /\ statOut = "none"
  /\ statErr = ""

\* watchMode at rest, for the behaviours of the other commands.
WatchIdle ==
  /\ watchFn = "none"
  /\ watchJSON = FALSE
  /\ noClear = FALSE
  /\ interval = 0
  /\ wpc = "idle"
  /\ tickerOn = FALSE
  /\ notifyOn = FALSE
  /\ tickDue = FALSE
  /\ sigPending = FALSE
  /\ ticks = 0
  /\ sigs = 0
  /\ cycles = 0
  /\ ticksTaken = 0
  /\ passLog = <<>>
  /\ screen = <<>>
  /\ watchErr = "none"
  /\ sigAt = "none"
  /\ cyclesAtSig = 0

\* An alias that ~/.ssh/config does not know: every field absent.
NoConfig == [hostname |-> "", user |-> "", port |-> "", identityfile |-> <<>>]
\* No client configuration.
NoClient == [user |-> "", keyPath |-> <<>>, addr |-> <<>>, hostKey |-> "none"]

\* The remote command at rest, for the behaviours of the other commands.
RemoteIdle ==
  /\ remoteFn = "none"
  /\ hostAlias = ""
  /\ userHost = <<>>
  /\ keyFlag = <<>>
  /\ remoteJSON = FALSE
  /\ aliasCfg = NoConfig
  /\ rpc = "idle"
  /\ resolved = NoClient
  /\ resolveErr = ""
  /\ conns = 0
  /\ sessions = 0
  /\ connState = "none"
  /\ sessState = "none"
  /\ defers = <<>>
  /\ closeLog = <<>>
  /\ commands = <<>>
  /\ remoteErr = ""

LogIdle ==
  /\ logClient = "none"
  /\ logName = ""
  /\ logTail = 0
  /\ logFollow = FALSE
  /\ logWriter = "none"
  /\ logStore = <<>>
  /\ lpc = "idle"
  /\ logReader = "none"
  /\ logServed = <<>>
  /\ logOut = <<>>
  /\ logErr = "none"

StreamIdle ==
  /\ strJSON = FALSE
  /\ strIds = <<>>
  /\ spc = "idle"
  /\ si = 1
  /\ strPasses = 0
  /\ ctxDone = FALSE
  /\ passesAtCancel = 0
  /\ strOut = <<>>

\* State on entry of the orchestrator: nothing launched, `results` nil, the
\* mutex and the wait group at their zero values.
OrchEntry ==
  /\ mainpc = "start"
  /\ li = 1
  /\ pj = 1
  /\ probes = <<>>
  /\ results = <<>>
  /\ mu = 0
  /\ wg = 0
  /\ rendered = <<>>
  /\ alertIdx = 1
  /\ posts = <<>>
  /\ postLog = <<>>
  /\ retErr = ""

\* executeLocalServiceCheck takes neither a threshold nor a webhook.
Init ==
  /\ variant \in {CS, ELSC}
  /\ lines \in DockerOutputs
  /\ threshold \in (IF variant = CS THEN Thresholds ELSE {0})
  /\ webhook \in (IF variant = CS THEN Webhooks ELSE {""})
  /\ OrchEntry
  /\ CPUIdle
  /\ StatIdle
  /\ WatchIdle
  /\ RemoteIdle
  /\ LogIdle
  /\ StreamIdle

\* --------------------------------------------------- the orchestrator's steps
\* docker ps runs; on failure the orchestrator returns the error, and
\* executeLocalServiceCheck returns early on an output with no line.
\* An orchestrator that goes on to the scan after a failed docker ps.
AfterListErrorScan == "scan"

\* Where the orchestrator goes when docker ps fails: `return fmt.Errorf(...)`.
AfterListError == "failed"

ListContainers ==
  /\ mainpc = "start"
  /\ \E ok \in BOOLEAN :
       IF ~ok
       THEN /\ mainpc' = AfterListError
            /\ retErr' = "docker ps failed"
       ELSE /\ mainpc' = IF variant = ELSC /\ Len(lines) = 1 /\ lines[1] = <<>>
                         THEN "returned" ELSE "scan"
            /\ retErr' = ""
  /\ UNCHANGED <<variant, lines, threshold, webhook, li, pj, probes, results,
                 mu, wg, rendered, alertIdx, posts, postLog, notOrch>>

scanUnchanged == <<variant, lines, threshold, webhook, results, mu, rendered,
                   alertIdx, posts, postLog, retErr, notOrch>>

RECURSIVE NextStop(_, _, _)
\* Where the loops stop next from line l, entry j: the first entry that is
\* not passed over by a `continue` (a line that does not split in two parts,
\* an entry the inner loop skips), or <<Len(lines) + 1, 1>> at the end.
NextStop(v, l, j) ==
  IF l > Len(lines) THEN <<l, 1>>
  ELSE IF ~LineProbed(lines[l]) THEN NextStop(v, l + 1, 1)
  ELSE IF j > Len(LinePorts(lines[l])) THEN NextStop(v, l + 1, 1)
  ELSE IF PortStep(v, LinePorts(lines[l])[j]) = "skip" THEN NextStop(v, l, j + 1)
  ELSE <<l, j>>

\* The port entry the loops stop at.
Stop == NextStop(variant, li, pj)
AtPort == mainpc = "scan" /\ Stop[1] <= Len(lines)
CurPort == LinePorts(lines[Stop[1]])[Stop[2]]

\* Index out of range at strings.Split(p, ":")[1]: the process dies.
ScanPortPanic ==
  /\ AtPort
  /\ PortStep(variant, CurPort) = "panic"
  /\ mainpc' = "panicked"
  /\ li' = Stop[1]
  /\ pj' = Stop[2]
  /\ UNCHANGED <<probes, wg, scanUnchanged>>

\* The loops run on to the next entry that is probed: wg.Add(1) and the go
\* statement.
ScanLaunch ==
  /\ AtPort
  /\ PortStep(variant, CurPort) = "launch"
  /\ wg' = wg + 1
  /\ probes' = Append(probes,
       [cn |-> Concat(LineParts(lines[Stop[1]])[1]),
        pr |-> Concat(PortText(variant, CurPort)),
        urlok |-> ValidURL(PortText(variant, CurPort)),
        src |-> Stop,
        pc |-> IF variant = CS THEN "get" ELSE "newreq",
        resp |-> NoResp, e1 |-> 0, e2 |-> 0,
        status |-> Pending,
        loaded |-> <<>>])
  /\ li' = Stop[1]
  /\ pj' = Stop[2] + 1
  /\ UNCHANGED <<mainpc, scanUnchanged>>

\* The loops run to their end.
ScanDone ==
  /\ mainpc = "scan"
  /\ Stop[1] > Len(lines)
  /\ mainpc' = "wait"
  /\ li' = Stop[1]
  /\ pj' = 1
  /\ UNCHANGED <<probes, wg, scanUnchanged>>

\* A wait that returns whatever the counter.
WaitReturnsAtOnce(counter) == TRUE

\* wg.Wait() returns when the counter is zero.
WaitReturns(counter) == counter = 0

Wait ==
  /\ mainpc = "wait"
  /\ WaitReturns(wg)
  /\ mainpc' = "present"
  /\ UNCHANGED <<li, pj, probes, wg, scanUnchanged>>

\* The results are marshalled or printed; CheckServices goes on to the alerts
\* when a webhook is configured.
Present ==
  /\ mainpc = "present"
  /\ rendered' = results
  /\ alertIdx' = 1
  /\ mainpc' = IF variant = CS /\ webhook # "" THEN "alert" ELSE "returned"
  /\ UNCHANGED <<variant, lines, threshold, webhook, li, pj, probes, results,
                 mu, wg, posts, postLog, retErr, notOrch>>

alertUnchanged == <<variant, lines, threshold, webhook, li, pj, probes, results,
                    mu, wg, rendered, retErr, notOrch>>

\* An alert loop that posts every result.
AlertableAlways(r) == TRUE

\* The condition of line 81 under which a result is posted.
Alertable(r) == r.status # Available

\* The body of the POST of lines 82-84.
AlertBody(r) == [container |-> r.container, port |-> r.port, status |-> r.status]

\* An alert loop that posts again after a failed POST.
AfterPostRetry(outcome, i) == IF outcome = "error" THEN i ELSE i + 1

\* Where the alert loop goes after a POST: its outcome is not looked at.
AfterPost(outcome, i) == i + 1

AlertSkip ==
  /\ mainpc = "alert"
  /\ alertIdx <= Len(results)
  /\ ~Alertable(results[alertIdx])
  /\ alertIdx' = alertIdx + 1
  /\ UNCHANGED <<mainpc, posts, postLog, alertUnchanged>>

\* http.Post is called.
AlertPost ==
  /\ mainpc = "alert"
  /\ alertIdx <= Len(results)
  /\ Alertable(results[alertIdx])
  /\ posts' = Append(posts, AlertBody(results[alertIdx]))
  /\ mainpc' = "posting"
  /\ UNCHANGED <<alertIdx, postLog, alertUnchanged>>

PostOutcomes == {"ok", "error"}

\* http.Post returns, with a response or with an error.
PostReturns ==
  /\ mainpc = "posting"
  /\ \E o \in PostOutcomes :
       /\ postLog' = Append(postLog, o)
       /\ alertIdx' = AfterPost(o, alertIdx)
  /\ mainpc' = "alert"
  /\ UNCHANGED <<posts, alertUnchanged>>

\* The webhook never answers: http.DefaultClient has no timeout.
PostHangs ==
  /\ mainpc = "posting"
  /\ mainpc' = "posthung"
  /\ UNCHANGED <<alertIdx, posts, postLog, alertUnchanged>>

AlertDone ==
  /\ mainpc = "alert"
  /\ alertIdx > Len(results)
  /\ mainpc' = "returned"
  /\ UNCHANGED <<alertIdx, posts, postLog, alertUnchanged>>

\* ------------------------------------------------- the probe goroutines' steps
probeUnchanged == <<variant, lines, threshold, webhook, mainpc, li, pj,
                    rendered, alertIdx, posts, postLog, retErr, notOrch>>

\* A goroutine runs as long as the process lives.
Running(i) == i \in 1..Len(probes) /\ mainpc # "panicked"

\* http.NewRequestWithContext of executeLocalServiceCheck: a URL that does not
\* parse gives the "request error" result.
NewRequest(i) ==
  /\ Running(i)
  /\ probes[i].pc = "newreq"
  /\ probes' = [probes EXCEPT ![i] =
       IF probes[i].urlok THEN [@ EXCEPT !.pc = "do"]
       ELSE [@ EXCEPT !.pc = "lock", !.status = RequestError]]
  /\ UNCHANGED <<results, mu, wg, probeUnchanged>>

\* http.Get / client.Do returns an error (URL not parsed, connection refused).
RequestFails(i) ==
  /\ Running(i)
  /\ probes[i].pc \in {"get", "do"}
  /\ probes' = [probes EXCEPT ![i] =
       [@ EXCEPT !.pc = "lock", !.resp = NoResp,
                 !.status = IF variant = CS THEN ClassifyCS(NoResp, 0, 0, threshold)
                            ELSE Pending]]
  /\ UNCHANGED <<results, mu, wg, probeUnchanged>>

\* The endpoint answers. CheckServices classifies at once, reading the clock
\* twice; executeLocalServiceCheck classifies after taking the lock.
RequestAnswers(i) ==
  /\ Running(i)
  /\ probes[i].pc \in {"get", "do"}
  /\ probes[i].urlok
  /\ \E r \in Responses :
       IF variant = CS
       THEN \E e1 \in 0..MaxElapsed : \E e2 \in e1..MaxElapsed :
              probes' = [probes EXCEPT ![i] =
                [@ EXCEPT !.pc = "close", !.resp = r, !.e1 = e1, !.e2 = e2,
                          !.status = ClassifyCS(r, e1, e2, threshold)]]
       ELSE probes' = [probes EXCEPT ![i] = [@ EXCEPT !.pc = "lock", !.resp = r]]
  /\ UNCHANGED <<results, mu, wg, probeUnchanged>>

\* The endpoint never answers: the request ends with an error when the
\* client's timeout expires, and never when the client has none.
RequestSilent(i) ==
  /\ Running(i)
  /\ probes[i].pc \in {"get", "do"}
  /\ probes[i].urlok
  /\ probes' = [probes EXCEPT ![i] =
       IF ClientTimeout(variant) > 0
       THEN [@ EXCEPT !.pc = "lock", !.resp = NoResp,
                      !.status = IF variant = CS
                                 THEN ClassifyCS(NoResp, 0, 0, threshold)
                                 ELSE Pending]
       ELSE [@ EXCEPT !.pc = "hung"]]
  /\ UNCHANGED <<results, mu, wg, probeUnchanged>>

\* resp.Body.Close() of CheckServices, before the lock is taken; the clock
\* readings are not used after it.
CloseBody(i) ==
  /\ Running(i)
  /\ probes[i].pc = "close"
  /\ probes' = [probes EXCEPT ![i] =
       [@ EXCEPT !.pc = "lock", !.e1 = 0, !.e2 = 0]]
  /\ UNCHANGED <<results, mu, wg, probeUnchanged>>

\* A lock that excludes nobody.
LockAlways(m) == TRUE

\* mu.Lock() succeeds when the mutex is free.
LockFree(m) == m = 0

Lock(i) ==
  /\ Running(i)
  /\ probes[i].pc = "lock"
  /\ LockFree(mu)
  /\ mu' = i
  /\ probes' = [probes EXCEPT ![i] =
       [@ EXCEPT !.pc = "load",
                 !.status = IF variant = CS \/ @ = RequestError THEN @
                            ELSE ClassifyELSC(probes[i].resp)]]
  /\ UNCHANGED <<results, wg, probeUnchanged>>

\* append(results, ...) reads the slice ...
AppendLoad(i) ==
  /\ Running(i)
  /\ probes[i].pc = "load"
  /\ probes' = [probes EXCEPT ![i] = [@ EXCEPT !.pc = "store", !.loaded = results]]
  /\ UNCHANGED <<results, mu, wg, probeUnchanged>>

\* ... and the assignment writes the extended slice back.
AppendStore(i) ==
  /\ Running(i)
  /\ probes[i].pc = "store"
  /\ results' = Append(probes[i].loaded,
                       Result(probes[i].cn, probes[i].pr, probes[i].status))
  /\ probes' = [probes EXCEPT ![i] =
       [@ EXCEPT !.loaded = <<>>,
                 !.pc = IF variant = ELSC /\ ~probes[i].resp.err
                        THEN "closeLocked" ELSE "unlock"]]
  /\ UNCHANGED <<mu, wg, probeUnchanged>>

\* The deferred resp.Body.Close() of executeLocalServiceCheck runs before the
\* deferred mu.Unlock().
CloseBodyLocked(i) ==
  /\ Running(i)
  /\ probes[i].pc = "closeLocked"
  /\ probes' = [probes EXCEPT ![i].pc = "unlock"]
  /\ UNCHANGED <<results, mu, wg, probeUnchanged>>

Unlock(i) ==
  /\ Running(i)
  /\ probes[i].pc = "unlock"
  /\ mu' = 0
  /\ probes' = [probes EXCEPT ![i].pc = "wgdone"]
  /\ UNCHANGED <<results, wg, probeUnchanged>>

\* The deferred wg.Done().
WgDone(i) ==
  /\ Running(i)
  /\ probes[i].pc = "wgdone"
  /\ wg' = wg - 1
  /\ probes' = [probes EXCEPT ![i].pc = "done"]
  /\ UNCHANGED <<results, mu, probeUnchanged>>

Next ==
  \/ ListContainers
  \/ ScanPortPanic
  \/ ScanLaunch
  \/ ScanDone
  \/ Wait
  \/ Present
  \/ AlertSkip
  \/ AlertPost
  \/ PostReturns
  \/ PostHangs
  \/ AlertDone
  \/ \E i \in 1..Len(probes) : NewRequest(i)
  \/ \E i \in 1..Len(probes) : RequestFails(i)
  \/ \E i \in 1..Len(probes) : RequestAnswers(i)
  \/ \E i \in 1..Len(probes) : RequestSilent(i)
  \/ \E i \in 1..Len(probes) : CloseBody(i)
  \/ \E i \in 1..Len(probes) : Lock(i)
  \/ \E i \in 1..Len(probes) : AppendLoad(i)
  \/ \E i \in 1..Len(probes) : AppendStore(i)
  \/ \E i \in 1..Len(probes) : CloseBodyLocked(i)
  \/ \E i \in 1..Len(probes) : Unlock(i)
  \/ \E i \in 1..Len(probes) : WgDone(i)

Spec == Init /\ [][Next]_vars

\* ------------------------------------------------------- the CPU sampler
\* The counters are uint64 in the code; the model keeps the wrap-around of
\* the subtraction at a smaller width.
Modulus == 2 ^ UintBits
Counters == 0..(Modulus - 1)

\* Unsigned subtraction, done before the conversion to float64.
USub(a, b) == (a - b + Modulus) % Modulus

\* The float64 results the model needs: zero, or num/den with den > 0.
Zero == [num |-> 0, den |-> 1]
Ratio(delta, system, cpus) == [num |-> delta * cpus * 100, den |-> system]

\* A guard that forgets the system delta.
DeltaPositiveOnly(delta, system) == delta > 0

\* The guard of the division: `system > 0 && delta > 0`.
DeltasPositive(delta, system) == system > 0 /\ delta > 0

\* internal/docker/stats.go calcCPU: the CPU count is len(PercpuUsage), held
\* in s.ncpu.
calcCPU(s) ==
  LET delta == USub(s.total, s.preTotal)
      system == USub(s.system, s.preSystem)
  IN  IF DeltasPositive(delta, system) THEN Ratio(delta, system, s.ncpu) ELSE Zero

\* The first calculateCPUPercent of monitor.go: the CPU count is OnlineCPUs,
\* held in s.ncpu, or runtime.NumCPU() when that is 0.
calculateCPUPercent(s, numCPU) ==
  LET cpuDelta == USub(s.total, s.preTotal)
      systemDelta == USub(s.system, s.preSystem)
      cpuCount == IF s.ncpu = 0 THEN numCPU ELSE s.ncpu
  IN  IF DeltasPositive(cpuDelta, systemDelta)
      THEN Ratio(cpuDelta, systemDelta, cpuCount) ELSE Zero

\* The later calculateCPUPercent of monitor.go: the CPU count is
\* len(PercpuUsage), held in s.ncpu.
calculateCPUPercentPercpu(s) ==
  LET cpuDelta == USub(s.total, s.preTotal)
      systemDelta == USub(s.system, s.preSystem)
  IN  IF DeltasPositive(cpuDelta, systemDelta)
      THEN Ratio(cpuDelta, systemDelta, s.ncpu) ELSE Zero

\* The orchestrator at rest, for the behaviours of the sampler.
OrchIdle ==
  /\ variant = "none"
  /\ lines = <<>>
  /\ threshold = 0
  /\ webhook = ""
  /\ mainpc = "idle"
  /\ li = 1
  /\ pj = 1
  /\ probes = <<>>
  /\ results = <<>>
  /\ mu = 0
  /\ wg = 0
  /\ rendered = <<>>
  /\ alertIdx = 1
  /\ posts = <<>>
  /\ postLog = <<>>
  /\ retErr = ""

CPUFunctions == {"calcCPU", "calculateCPUPercent", "calculateCPUPercentPercpu"}

\* A stats value as decoded from the daemon: any counters, any CPU count.
InitCPU ==
  /\ OrchIdle
  /\ StatIdle
  /\ WatchIdle
  /\ RemoteIdle
  /\ LogIdle
  /\ StreamIdle
  /\ cpuFn \in CPUFunctions
  /\ stats \in [total : Counters, preTotal : Counters, system : Counters,
                preSystem : Counters, ncpu : 0..MaxCPUs]
  /\ cpupc = "call"
  /\ cpuOut = Zero

\* StreamStats calls calcCPU(stats).
CallCalcCPU ==
  /\ cpupc = "call"
  /\ cpuFn = "calcCPU"
  /\ cpuOut' = calcCPU(stats)
  /\ cpupc' = "done"
  /\ UNCHANGED <<cpuFn, stats, notCPU>>

\* showStats calls calculateCPUPercent(&v); runtime.NumCPU() is at least 1.
CallCalculateCPUPercent ==
  /\ cpupc = "call"
  /\ cpuFn = "calculateCPUPercent"
  /\ \E numCPU \in 1..MaxCPUs : cpuOut' = calculateCPUPercent(stats, numCPU)
  /\ cpupc' = "done"
  /\ UNCHANGED <<cpuFn, stats, notCPU>>

\* The later showStats calls the len(PercpuUsage) form.
CallCalculateCPUPercentPercpu ==
  /\ cpupc = "call"
  /\ cpuFn = "calculateCPUPercentPercpu"
  /\ cpuOut' = calculateCPUPercentPercpu(stats)
  /\ cpupc' = "done"
  /\ UNCHANGED <<cpuFn, stats, notCPU>>

NextCPU ==
  \/ CallCalcCPU
  \/ CallCalculateCPUPercent
  \/ CallCalculateCPUPercentPercpu

SpecCPU == InitCPU /\ [][NextCPU]_vars

\* ------------------------------------------------------------- showStats
\* monitor.go holds two showStats: the first guards the memory division and
\* calls the OnlineCPUs form of calculateCPUPercent, the later one divides
\* unguarded and calls the len(PercpuUsage) form.
SS == "showStats"
SSP == "showStatsPercpu"

\* Names[0] of the listed containers, as the daemon reports them.
StatNames == << <<"/", "web">>, <<"/", "db">>, <<"/", "cache">>, <<"/", "api">> >>
\* MemoryStats.Usage and MemoryStats.Limit as decoded.
MemValues == 0..MaxMem
\* The CPU counters of a decoded sample: the zero value, a busy interval on
\* one CPU, and a counter reset.
StatSnapshots ==
  {[total |-> 0, preTotal |-> 0, system |-> 0, preSystem |-> 0, ncpu |-> 0],
   [total |-> 1, preTotal |-> 0, system |-> 1, preSystem |-> 0, ncpu |-> 1],
   [total |-> 0, preTotal |-> 1, system |-> 0, preSystem |-> 1, ncpu |-> 1]}

\* float64 results of a division by zero: 0/0 and x/0 for x > 0.
NaN == [num |-> 0, den |-> 0]
PosInf == [num |-> 1, den |-> 0]
Finite(f) == f.den > 0

\* float64(usage) / float64(limit) * 100.0
MemRatio(usage, limit) ==
  IF limit = 0 THEN (IF usage = 0 THEN NaN ELSE PosInf)
  ELSE [num |-> usage * 100, den |-> limit]

\* The first showStats divides only `if v.MemoryStats.Limit > 0`.
LimitPositive(limit) == limit > 0

\* memPercent of the two showStats.
MemPercent(fn, usage, limit) ==
  IF fn = SS
  THEN IF LimitPositive(limit) THEN MemRatio(usage, limit) ELSE Zero
  ELSE MemRatio(usage, limit)

\* cpuPercent of the two showStats; runtime.NumCPU() is numCPU.
CpuPercent(fn, v, numCPU) ==
  IF fn = SS THEN calculateCPUPercent(v, numCPU)
  ELSE calculateCPUPercentPercpu(v)

\* strings.HasPrefix(name, "/") then name[1:], and strings.TrimPrefix(name, "/").
TrimSlash(name) ==
  IF name # <<>> /\ name[1] = "/" THEN Concat(Tail(name)) ELSE Concat(name)

\* json.Marshal refuses NaN and the infinities.
Marshals(b) ==
  \A i \in 1..Len(b) : Finite(b[i].cpu) /\ Finite(b[i].mem)

InitStats ==
  /\ OrchIdle
  /\ CPUIdle
  /\ WatchIdle
  /\ RemoteIdle
  /\ LogIdle
  /\ StreamIdle
  /\ statFn \in {SS, SSP}
  /\ useJSON \in BOOLEAN
  /\ containers = <<>>
  /\ statpc = "start"
  /\ ci = 1
  /\ batch = <<>>
  /\ statOut = "none"
  /\ statErr = ""

\* client.NewClientWithOpts
NewClient ==
  /\ statpc = "start"
  /\ \E ok \in BOOLEAN :
       IF ok THEN statpc' = "list" /\ statErr' = ""
       ELSE statpc' = "returned" /\ statErr' = "Docker client error"
  /\ UNCHANGED <<statFn, useJSON, containers, ci, batch, statOut, notStat>>

\* cli.ContainerList fails.
ContainerListFails ==
  /\ statpc = "list"
  /\ statpc' = "returned"
  /\ statErr' = "Failed to list containers"
  /\ UNCHANGED <<statFn, useJSON, containers, ci, batch, statOut, notStat>>

\* cli.ContainerList answers with k containers; none ends the call.
ContainerList ==
  /\ statpc = "list"
  /\ \E k \in 0..MaxContainers :
       /\ containers' = SubSeq(StatNames, 1, k)
       /\ statpc' = IF k = 0 THEN "returned" ELSE "loop"
       /\ statOut' = IF k = 0 THEN "No running containers found!" ELSE statOut
  /\ UNCHANGED <<statFn, useJSON, ci, batch, statErr, notStat>>

AtContainer == statpc = "loop" /\ ci <= Len(containers)

\* cli.ContainerStats fails: `continue`.
StatsRequestFails ==
  /\ AtContainer
  /\ ci' = ci + 1
  /\ UNCHANGED <<statFn, useJSON, containers, statpc, batch, statOut, statErr, notStat>>

\* Decode fails: the body is closed, `continue`.
StatsDecodeFails ==
  /\ AtContainer
  /\ ci' = ci + 1
  /\ UNCHANGED <<statFn, useJSON, containers, statpc, batch, statOut, statErr, notStat>>

\* The sample decodes: the percentages are computed and the ContainerStat is
\* appended.
StatsSample ==
  /\ AtContainer
  /\ \E v \in StatSnapshots, usage \in MemValues, limit \in MemValues,
        numCPU \in 1..MaxCPUs :
       batch' = Append(batch,
         [name |-> TrimSlash(containers[ci]),
          cpu |-> CpuPercent(statFn, v, numCPU),
          usage |-> usage,
          limit |-> limit,
          mem |-> MemPercent(statFn, usage, limit)])
  /\ ci' = ci + 1
  /\ UNCHANGED <<statFn, useJSON, containers, statpc, statOut, statErr, notStat>>

\* After the loop: the JSON document or the table. The first showStats drops
\* the error of json.MarshalIndent and prints what it got; the later one
\* returns the error of json.Marshal.
StatsOutput ==
  /\ statpc = "loop"
  /\ ci > Len(containers)
  /\ statpc' = "returned"
  /\ IF ~useJSON THEN statOut' = "table" /\ statErr' = ""
     ELSE IF Marshals(batch) THEN statOut' = "json" /\ statErr' = ""
     ELSE IF statFn = SS THEN statOut' = "empty" /\ statErr' = ""
     ELSE statOut' = statOut /\ statErr' = "JSON marshal error"
  /\ UNCHANGED <<statFn, useJSON, containers, ci, batch, notStat>>

NextStats ==
  \/ NewClient
  \/ ContainerListFails
  \/ ContainerList
  \/ StatsRequestFails
  \/ StatsDecodeFails
  \/ StatsSample
  \/ StatsOutput

SpecStats == InitStats /\ [][NextStats]_vars

\* ------------------------------------------------------------- watchMode
\* monitor.go holds two watchMode: the first refuses --json, takes the
\* interval as given and has --no-clear; the later one replaces an interval
\* below 1 by 2 and registers the signal channel before it makes the ticker.
WM == "watchMode"
WMD == "watchModeDefaulted"

Intervals == {0, 2}
WatchOver == {"returned", "cancelled", "panicked", "killed"}

\* A start that goes to the select without the initial display.
AfterSetupWait == "select"

\* After the ticker and the signal channel: the initial display.
AfterSetup == "eager"

\* A channel without buffer: a signal nobody waits for is lost.
NotifiedDropped(pending) == pending

\* sigChan has room for one signal: a signal sent while watchMode is not
\* waiting stays in the channel, a further one is dropped.
Notified(pending) == TRUE

InitWatch ==
  /\ OrchIdle
  /\ CPUIdle
  /\ StatIdle
  /\ RemoteIdle
  /\ LogIdle
  /\ StreamIdle
  /\ watchFn \in {WM, WMD}
  /\ watchJSON \in BOOLEAN
  /\ noClear \in (IF watchFn = WM THEN BOOLEAN ELSE {FALSE})
  /\ interval \in Intervals
  /\ wpc = "start"
  /\ tickerOn = FALSE
  /\ notifyOn = FALSE
  /\ tickDue = FALSE
  /\ sigPending = FALSE
  /\ ticks = 0
  /\ sigs = 0
  /\ cycles = 0
  /\ ticksTaken = 0
  /\ passLog = <<>>
  /\ screen = <<>>
  /\ watchErr = "none"
  /\ sigAt = "none"
  /\ cyclesAtSig = 0

watchFlags == <<watchFn, watchJSON, noClear>>
watchHistory == <<sigAt, cyclesAtSig>>
watchEnv == <<ticks, sigs>>

\* The first watchMode returns an error under --json; the later one fixes
\* the interval and prints its banner.
\* A first watchMode that goes on whatever the json flag says.
AfterJSONCheckIgnored(json) == "ticker"

\* The check of the first watchMode: `if useJSON { return fmt.Errorf(...) }`.
AfterJSONCheck(json) == IF json THEN "returned" ELSE "ticker"

WatchEntry ==
  /\ wpc = "start"
  /\ IF watchFn = WM
     THEN /\ wpc' = AfterJSONCheck(watchJSON)
          /\ watchErr' = IF watchJSON
                         THEN "watch mode not supported with JSON output"
                         ELSE watchErr
          /\ UNCHANGED <<interval, screen>>
     ELSE /\ wpc' = "notify"
          /\ interval' = IF interval < 1 THEN 2 ELSE interval
          /\ screen' = Append(screen, "banner")
          /\ UNCHANGED watchErr
  /\ UNCHANGED <<watchFlags, tickerOn, notifyOn, tickDue, sigPending, cycles,
                 ticksTaken, passLog, watchHistory, watchEnv, notWatch>>

\* time.NewTicker panics on an interval that is not positive.
NewTicker ==
  /\ wpc = "ticker"
  /\ IF interval <= 0
     THEN wpc' = "panicked" /\ UNCHANGED tickerOn
     ELSE /\ tickerOn' = TRUE
          /\ wpc' = IF watchFn = WM THEN "notify" ELSE AfterSetup
  /\ UNCHANGED <<watchFlags, interval, notifyOn, tickDue, sigPending, cycles,
                 ticksTaken, passLog, screen, watchErr, watchHistory, watchEnv,
                 notWatch>>

\* signal.Notify(sigChan, os.Interrupt, syscall.SIGTERM)
Notify ==
  /\ wpc = "notify"
  /\ notifyOn' = TRUE
  /\ wpc' = IF watchFn = WM THEN AfterSetup ELSE "ticker"
  /\ UNCHANGED <<watchFlags, interval, tickerOn, tickDue, sigPending, cycles,
                 ticksTaken, passLog, screen, watchErr, watchHistory, watchEnv,
                 notWatch>>

\* What a display writes before docker ps runs: the screen is cleared (the
\* first watchMode: unless --no-clear) and displayStatus prints its header.
Cleared(scr) ==
  IF watchFn = WM
  THEN (IF noClear THEN scr ELSE Append(scr, "clear")) \o <<"header">>
  ELSE Append(scr, "clear")

\* What follows the display: the first watchMode prints the "Last update"
\* line after a display that a tick started.
Updated(scr) ==
  IF watchFn = WM /\ cycles > 1 THEN Append(scr, "update") ELSE scr

\* The initial display starts.
InitialDisplay ==
  /\ wpc = "eager"
  /\ screen' = Cleared(screen)
  /\ cycles' = cycles + 1
  /\ wpc' = "sampling"
  /\ UNCHANGED <<watchFlags, interval, tickerOn, notifyOn, tickDue, sigPending,
                 ticksTaken, passLog, watchErr, watchHistory, watchEnv, notWatch>>

\* The display of `case <-ticker.C` starts.
TickDisplay ==
  /\ wpc = "ticked"
  /\ screen' = Cleared(screen)
  /\ cycles' = cycles + 1
  /\ wpc' = "sampling"
  /\ UNCHANGED <<watchFlags, interval, tickerOn, notifyOn, tickDue, sigPending,
                 ticksTaken, passLog, watchErr, watchHistory, watchEnv, notWatch>>

\* docker ps fails: executeLocalDockerStatus returns the error, which
\* displayStatus and watchMode drop.
DockerPsFails ==
  /\ wpc = "sampling"
  /\ passLog' = Append(passLog, "failed")
  /\ screen' = Updated(screen)
  /\ wpc' = "select"
  /\ UNCHANGED <<watchFlags, interval, tickerOn, notifyOn, tickDue, sigPending,
                 cycles, ticksTaken, watchErr, watchHistory, watchEnv, notWatch>>

\* docker ps answers.
DockerPsAnswers ==
  /\ wpc = "sampling"
  /\ wpc' = "rendering"
  /\ UNCHANGED <<watchFlags, interval, tickerOn, notifyOn, tickDue, sigPending,
                 cycles, ticksTaken, passLog, screen, watchErr, watchHistory,
                 watchEnv, notWatch>>

\* The container lines, or "No running containers found!", are printed.
Render ==
  /\ wpc = "rendering"
  /\ passLog' = Append(passLog, "ok")
  /\ screen' = Updated(Append(screen, "status"))
  /\ wpc' = "select"
  /\ UNCHANGED <<watchFlags, interval, tickerOn, notifyOn, tickDue, sigPending,
                 cycles, ticksTaken, watchErr, watchHistory, watchEnv, notWatch>>

\* The select finds a tick in ticker.C. With a signal in sigChan as well the
\* runtime picks either case.
SelectTick ==
  /\ wpc = "select"
  /\ tickDue
  /\ tickDue' = FALSE
  /\ ticksTaken' = ticksTaken + 1
  /\ wpc' = "ticked"
  /\ UNCHANGED <<watchFlags, interval, tickerOn, notifyOn, sigPending, cycles,
                 passLog, screen, watchErr, watchHistory, watchEnv, notWatch>>

\* A watchMode that also looks at sigChan while a pass runs.
ReceivePointsInPass == {"select", "sampling", "rendering"}

\* The positions at which watchMode receives from sigChan: the select of the
\* loop is the only receive.
ReceivePoints == {"select"}

\* The select finds a signal in sigChan.
SelectSignal ==
  /\ wpc \in ReceivePoints
  /\ sigPending
  /\ sigPending' = FALSE
  /\ wpc' = "signalled"
  /\ UNCHANGED <<watchFlags, interval, tickerOn, notifyOn, tickDue, cycles,
                 ticksTaken, passLog, screen, watchErr, watchHistory, watchEnv,
                 notWatch>>

\* No case is ready: the goroutine blocks on both channels.
SelectBlocks ==
  /\ wpc = "select"
  /\ ~tickDue
  /\ ~sigPending
  /\ wpc' = "parked"
  /\ UNCHANGED <<watchFlags, interval, tickerOn, notifyOn, tickDue, sigPending,
                 cycles, ticksTaken, passLog, screen, watchErr, watchHistory,
                 watchEnv, notWatch>>

\* The interval elapses while watchMode is blocked in the select: the tick is
\* handed to it.
TickWakes ==
  /\ tickerOn
  /\ ticks < MaxTicks
  /\ wpc = "parked"
  /\ ticks' = ticks + 1
  /\ ticksTaken' = ticksTaken + 1
  /\ wpc' = "ticked"
  /\ UNCHANGED <<watchFlags, interval, tickerOn, notifyOn, tickDue, sigPending,
                 sigs, cycles, passLog, screen, watchErr, watchHistory, notWatch>>

\* The interval elapses while watchMode is elsewhere: the tick goes to the
\* one-slot channel, or is dropped when the slot is taken.
TickBuffered ==
  /\ tickerOn
  /\ ticks < MaxTicks
  /\ wpc \notin (WatchOver \cup {"parked"})
  /\ ticks' = ticks + 1
  /\ tickDue' = TRUE
  /\ UNCHANGED <<watchFlags, interval, wpc, tickerOn, notifyOn, sigPending, sigs,
                 cycles, ticksTaken, passLog, screen, watchErr, watchHistory,
                 notWatch>>

\* The position and the pass count at the first signal that reaches sigChan.
Noted(field, now) == IF sigAt = "none" THEN now ELSE field

\* A signal before signal.Notify: the runtime's default handler ends the
\* process.
SignalKills ==
  /\ sigs < MaxSignals
  /\ ~notifyOn
  /\ wpc \notin WatchOver
  /\ sigs' = sigs + 1
  /\ wpc' = "killed"
  /\ UNCHANGED <<watchFlags, interval, tickerOn, notifyOn, tickDue, sigPending,
                 ticks, cycles, ticksTaken, passLog, screen, watchErr,
                 watchHistory, notWatch>>

\* A signal while watchMode is blocked in the select: it is handed to it.
SignalWakes ==
  /\ sigs < MaxSignals
  /\ notifyOn
  /\ wpc = "parked"
  /\ sigs' = sigs + 1
  /\ wpc' = "signalled"
  /\ sigAt' = Noted(sigAt, wpc)
  /\ cyclesAtSig' = Noted(cyclesAtSig, cycles)
  /\ UNCHANGED <<watchFlags, interval, tickerOn, notifyOn, tickDue, sigPending,
                 ticks, cycles, ticksTaken, passLog, screen, watchErr, notWatch>>

\* A signal while watchMode is elsewhere: it goes to sigChan.
SignalBuffered ==
  /\ sigs < MaxSignals
  /\ notifyOn
  /\ wpc \notin (WatchOver \cup {"parked"})
  /\ sigs' = sigs + 1
  /\ sigPending' = Notified(sigPending)
  /\ sigAt' = Noted(sigAt, wpc)
  /\ cyclesAtSig' = Noted(cyclesAtSig, cycles)
  /\ UNCHANGED <<watchFlags, interval, wpc, tickerOn, notifyOn, tickDue, ticks,
                 cycles, ticksTaken, passLog, screen, watchErr, notWatch>>

\* A `break` in place of the return: it leaves the select, not the loop.
AfterSignalBreak == "select"

\* `return nil` ends watchMode.
AfterSignal == "cancelled"

\* `case <-sigChan`: the farewell is printed, watchMode returns nil and the
\* deferred ticker.Stop() runs.
WatchExit ==
  /\ wpc = "signalled"
  /\ screen' = Append(screen, "exit")
  /\ watchErr' = "nil"
  /\ tickerOn' = FALSE
  /\ wpc' = AfterSignal
  /\ UNCHANGED <<watchFlags, interval, notifyOn, tickDue, sigPending, cycles,
                 ticksTaken, passLog, watchHistory, watchEnv, notWatch>>

\* The steps of watchMode's own goroutine.
WatchStep ==
  \/ WatchEntry
  \/ NewTicker
  \/ Notify
  \/ InitialDisplay
  \/ TickDisplay
  \/ DockerPsFails
  \/ DockerPsAnswers
  \/ Render
  \/ SelectTick
  \/ SelectSignal
  \/ SelectBlocks
  \/ WatchExit

\* The timer and the signals.
WatchEnvStep ==
  \/ TickWakes
  \/ TickBuffered
  \/ SignalKills
  \/ SignalWakes
  \/ SignalBuffered

NextWatch == WatchStep \/ WatchEnvStep

SpecWatch == InitWatch /\ [][NextWatch]_vars

\* The goroutine is scheduled as long as it can step, and a select that finds
\* a signal again and again takes it at some time (the runtime picks among
\* the ready cases at random).
SpecWatchFair ==
  /\ InitWatch
  /\ [][NextWatch]_vars
  /\ WF_vars(WatchStep)
  /\ SF_vars(SelectSignal)

\* ------------------------------------------------------ the remote command
\* remoteStatus of monitor.go and RemoteCmd of internal/ssh/remote.go resolve
\* with getSSHConfig (an alias) or getManualSSHConfig (user@host and a key);
\* remoteStatus of the earlier draft resolves with `ssh -G` and runs the
\* query with runRemoteCommand.
RS == "remoteStatus"
RC == "RemoteCmd"
RSG == "remoteStatusSshG"
\* RemoteCmd of internal/ssh/ssh.go, which resolves from its arguments alone.
RCS == "RemoteCmdSshGo"

OSUser == "me"
Home == "/home/me"
\* os.ExpandEnv("$HOME/.ssh/id_rsa")
DefaultKey == <<Home, "/.ssh/id_rsa">>
TildeKey == <<"~", "/.ssh/deploy_key">>
AbsoluteKey == <<"/keys/deploy_key">>

\* What ~/.ssh/config may hold for the alias; "" and <<>> are absent fields.
AliasConfigs ==
  [hostname : {"", "10.0.0.5"}, user : {"", "deploy"}, port : {"", "2222"},
   identityfile : {<<>>, TildeKey, AbsoluteKey}]
\* The first argument: well formed, without "@", with two "@".
UserHosts ==
  {<<"deploy", "@", "10.0.0.5">>, <<"10.0.0.5">>, <<"a", "@", "b", "@", "c">>}

\* What the files and the environment answer during a resolution: the
\* configuration opens, it decodes (or `ssh -G` succeeds), the home
\* directory is known, the key file reads, the key parses, known_hosts loads.
ResolveEnvs ==
  [config : BOOLEAN, decode : BOOLEAN, home : BOOLEAN, read : BOOLEAN,
   parse : BOOLEAN, known : BOOLEAN]

Failed(msg) == [err |-> msg, client |-> NoClient]
Resolved(user, keyPath, host, port, policy) ==
  [err |-> "",
   client |-> [user |-> user, keyPath |-> keyPath,
               addr |-> <<host, ":", port>>, hostKey |-> policy]]

\* expandPath: a leading "~" is replaced by the home directory.
NeedsHome(path) == path # <<>> /\ path[1] = "~"
expandPath(path) == IF NeedsHome(path) THEN <<Home>> \o Tail(path) ELSE path

\* os.ReadFile does not expand "~".
Reads(path, env) == env.read /\ path # <<>> /\ ~NeedsHome(path)

\* getSSHConfig of monitor.go: `keyPath = os.ExpandEnv("$HOME/.ssh/id_rsa")`
\* when the alias has no IdentityFile.
IdentityOrDefault(identityfile) ==
  IF identityfile = <<>> THEN DefaultKey ELSE expandPath(identityfile)

\* The key is read and parsed and known_hosts is loaded; the address is
\* host:port.
Finish(user, keyPath, host, port, env, readMsg, parseMsg, knownMsg) ==
  IF ~Reads(keyPath, env) THEN Failed(readMsg)
  ELSE IF ~env.parse THEN Failed(parseMsg)
  ELSE IF ~env.known THEN Failed(knownMsg)
  ELSE Resolved(user, keyPath, host, port, "knownhosts")

\* getSSHConfig of monitor.go.
getSSHConfig(cfg, env) ==
  IF ~env.config THEN Failed("Cannot open SSH config")
  ELSE IF ~env.decode THEN Failed("Decode error")
  ELSE IF cfg.hostname = "" THEN Failed("HostName not found")
  ELSE IF cfg.identityfile # <<>> /\ NeedsHome(cfg.identityfile) /\ ~env.home
  THEN Failed("Key path error")
  ELSE Finish(IF cfg.user = "" THEN OSUser ELSE cfg.user,
              IdentityOrDefault(cfg.identityfile), cfg.hostname, "22", env,
              "Cannot read key", "Cannot parse key", "Host key callback error")

\* What `ssh -G alias` prints: OpenSSH fills every field the configuration
\* leaves out (the alias as host name, the OS user, port 22, its default
\* identity file).
SshG(alias, cfg) ==
  [hostname |-> IF cfg.hostname = "" THEN alias ELSE cfg.hostname,
   user |-> IF cfg.user = "" THEN OSUser ELSE cfg.user,
   port |-> IF cfg.port = "" THEN "22" ELSE cfg.port,
   identityfile |-> IF cfg.identityfile = <<>> THEN <<"~", "/.ssh/id_rsa">>
                    ELSE cfg.identityfile]

\* getSSHConfig of the earlier draft: the fields are those of `ssh -G`.
getSSHConfigSshG(alias, cfg, env) ==
  LET sshArgs == SshG(alias, cfg)
  IN  IF ~env.config THEN Failed("SSH config file not found")
      ELSE IF ~env.decode THEN Failed("failed to retrieve host config")
      ELSE IF sshArgs.hostname = "" THEN Failed("hostname not found in SSH config")
      ELSE Finish(sshArgs.user, sshArgs.identityfile, sshArgs.hostname,
                  sshArgs.port, env, "could not read private key",
                  "could not parse private key", "could not load known hosts file")

\* getManualSSHConfig of monitor.go.
getManualSSHConfig(uh, key, env) ==
  LET parts == Split(uh, "@")
  IN  IF NeedsHome(key) /\ ~env.home THEN Failed("Key path error")
      ELSE IF ~Reads(expandPath(key), env) THEN Failed("Cannot read key")
      ELSE IF ~env.parse THEN Failed("Cannot parse key")
      ELSE IF Len(parts) # 2 THEN Failed("Invalid user@host")
      ELSE IF ~env.known THEN Failed("Host key callback error")
      ELSE Resolved(Concat(parts[1]), expandPath(key), Concat(parts[2]), "22",
                    "knownhosts")

\* getSSHConfig of internal/ssh/ssh.go: user@host and -i are required, the
\* key path is read as given, and the client configuration is built with
\* ssh.InsecureIgnoreHostKey().
getSSHConfigCli(uh, key, env) ==
  LET parts == Split(uh, "@")
  IN  IF uh = <<>> THEN Failed("user@host argument missing")
      ELSE IF Len(parts) # 2 THEN Failed("user@host format invalid")
      ELSE IF key = <<>> THEN Failed("key path missing: -i")
      ELSE IF ~Reads(key, env) THEN Failed("read key")
      ELSE IF ~env.parse THEN Failed("parse key")
      ELSE Resolved(Concat(parts[1]), key, Concat(parts[2]), "22", "insecure")

\* The invocations: an alias with any configuration, a user@host argument
\* with or without a key, or neither. The earlier draft knows --host only.
Invocations ==
  {[alias |-> "prod", uh |-> <<>>, key |-> <<>>, cfg |-> c] : c \in AliasConfigs}
  \cup {[alias |-> "", uh |-> u, key |-> k, cfg |-> NoConfig] :
          u \in UserHosts, k \in {<<>>, TildeKey, AbsoluteKey}}
  \cup {[alias |-> "", uh |-> <<>>, key |-> <<>>, cfg |-> NoConfig]}

InitRemote ==
  /\ OrchIdle
  /\ CPUIdle
  /\ StatIdle
  /\ WatchIdle
  /\ LogIdle
  /\ StreamIdle
  /\ remoteFn \in {RS, RC, RSG, RCS}
  /\ remoteJSON \in (IF remoteFn = RSG THEN {FALSE} ELSE BOOLEAN)
  /\ \E inv \in Invocations :
       /\ remoteFn = RSG => inv.uh = <<>>
       /\ remoteFn = RCS => inv.alias = ""
       /\ hostAlias = inv.alias
       /\ userHost = inv.uh
       /\ keyFlag = inv.key
       /\ aliasCfg = inv.cfg
  /\ rpc = "start"
  /\ resolved = NoClient
  /\ resolveErr = ""
  /\ conns = 0
  /\ sessions = 0
  /\ connState = "none"
  /\ sessState = "none"
  /\ defers = <<>>
  /\ closeLog = <<>>
  /\ commands = <<>>
  /\ remoteErr = ""

remoteArgs == <<remoteFn, hostAlias, userHost, keyFlag, remoteJSON, aliasCfg>>
remoteLinks == <<conns, sessions, connState, sessState, defers, closeLog, commands>>

\* How the command ends without having dialled: the earlier draft calls
\* log.Fatal, the others return the error.
Refused == IF remoteFn = RSG THEN "exited" ELSE "returned"

\* The command picks its resolver from --host and the arguments.
RemoteEntry ==
  /\ rpc = "start"
  /\ IF remoteFn = RCS
     THEN rpc' = "resolveManual" /\ UNCHANGED <<resolveErr, remoteErr>>
     ELSE IF hostAlias # ""
     THEN rpc' = "resolveAlias" /\ UNCHANGED <<resolveErr, remoteErr>>
     ELSE IF remoteFn = RSG \/ userHost = <<>>
     THEN /\ rpc' = Refused
          /\ remoteErr' = "Missing args"
          /\ UNCHANGED resolveErr
     ELSE IF keyFlag = <<>>
     THEN /\ rpc' = Refused
          /\ resolveErr' = "Missing SSH key"
          /\ remoteErr' = "Missing SSH key"
     ELSE rpc' = "resolveManual" /\ UNCHANGED <<resolveErr, remoteErr>>
  /\ UNCHANGED <<remoteArgs, resolved, remoteLinks, notRemote>>

\* A command that goes on whatever the resolver returned.
AbortsNever(err) == FALSE

\* `if err != nil { return fmt.Errorf("SSH config error ...") }`
Aborts(err) == err # ""

\* The resolver has returned r: its error ends the command, else the
\* command goes on to dial.
Conclude(r) ==
  /\ resolveErr' = r.err
  /\ IF Aborts(r.err)
     THEN /\ rpc' = Refused
          /\ remoteErr' = IF remoteFn = RCS THEN r.err
                           ELSE "SSH config error: " \o r.err
          /\ resolved' = resolved
     ELSE /\ rpc' = "dial"
          /\ remoteErr' = remoteErr
          /\ resolved' = r.client

ResolveAlias ==
  /\ rpc = "resolveAlias"
  /\ \E env \in ResolveEnvs :
       Conclude(IF remoteFn = RSG
                THEN getSSHConfigSshG(hostAlias, aliasCfg, env)
                ELSE getSSHConfig(aliasCfg, env))
  /\ UNCHANGED <<remoteArgs, remoteLinks, notRemote>>

ResolveManual ==
  /\ rpc = "resolveManual"
  /\ \E env \in ResolveEnvs :
       Conclude(IF remoteFn = RCS
                THEN getSSHConfigCli(userHost, keyFlag, env)
                ELSE getManualSSHConfig(userHost, keyFlag, env))
  /\ UNCHANGED <<remoteArgs, remoteLinks, notRemote>>

\* ssh.Dial, then `defer client.Close()`.
Dial ==
  /\ rpc = "dial"
  /\ \E ok \in BOOLEAN :
       IF ok
       THEN /\ conns' = conns + 1
            /\ connState' = "open"
            /\ defers' = Append(defers, "client")
            /\ rpc' = "session"
            /\ UNCHANGED remoteErr
       ELSE /\ remoteErr' = "Failed to connect"
            /\ rpc' = "unwind"
            /\ UNCHANGED <<conns, connState, defers>>
  /\ UNCHANGED <<remoteArgs, resolved, resolveErr, sessions, sessState, closeLog,
                 commands, notRemote>>

\* client.NewSession, then `defer session.Close()`.
NewSession ==
  /\ rpc = "session"
  /\ \E ok \in BOOLEAN :
       IF ok
       THEN /\ sessions' = sessions + 1
            /\ sessState' = "open"
            /\ defers' = Append(defers, "session")
            /\ rpc' = "run"
            /\ UNCHANGED remoteErr
       ELSE /\ remoteErr' = "Session error"
            /\ rpc' = "unwind"
            /\ UNCHANGED <<sessions, sessState, defers>>
  /\ UNCHANGED <<remoteArgs, resolved, resolveErr, conns, connState, closeLog,
                 commands, notRemote>>

\* The one command string of the call.
CommandString ==
  IF remoteFn = RSG THEN "docker ps --format '{{.Names}}'"
  ELSE IF remoteJSON THEN "docker ps --format '{{json .}}'"
  ELSE "docker ps --format '{{.Names}} | {{.Status}} | {{.Ports}}'"

\* session.Run(cmd); the output is printed when it succeeds.
Run ==
  /\ rpc = "run"
  /\ commands' = Append(commands, CommandString)
  /\ \E ok \in BOOLEAN : remoteErr' = IF ok THEN "" ELSE "docker ps failed"
  /\ rpc' = "unwind"
  /\ UNCHANGED <<remoteArgs, resolved, resolveErr, conns, sessions, connState,
                 sessState, defers, closeLog, notRemote>>

\* Deferred calls that run in the order they were deferred.
NextDeferredFifo(stack) == 1

\* Deferred calls run last in, first out.
NextDeferred(stack) == Len(stack)

\* On return the next deferred Close runs.
RunDeferred ==
  /\ rpc = "unwind"
  /\ defers # <<>>
  /\ LET k == NextDeferred(defers)
     IN  /\ closeLog' = Append(closeLog, defers[k])
         /\ defers' = SubSeq(defers, 1, k - 1) \o SubSeq(defers, k + 1, Len(defers))
         /\ connState' = IF defers[k] = "client" THEN "closed" ELSE connState
         /\ sessState' = IF defers[k] = "session" THEN "closed" ELSE sessState
  /\ UNCHANGED <<remoteArgs, rpc, resolved, resolveErr, conns, sessions, commands,
                 remoteErr, notRemote>>

\* The call returns to its caller.
RemoteReturn ==
  /\ rpc = "unwind"
  /\ defers = <<>>
  /\ rpc' = "returned"
  /\ UNCHANGED <<remoteArgs, resolved, resolveErr, remoteLinks, remoteErr,
                 notRemote>>

NextRemote ==
  \/ RemoteEntry
  \/ ResolveAlias
  \/ ResolveManual
  \/ Dial
  \/ NewSession
  \/ Run
  \/ RunDeferred
  \/ RemoteReturn

SpecRemote == InitRemote /\ [][NextRemote]_vars

\* ======================================================================
\* TailContainerLogs
\* ======================================================================
\* The container the daemon knows, and a name it does not know.
LogNames == {"web", "nonexistent"}
Exists(name) == name = "web"

LogLines == {"a", "b"}
TailValues == {0, 1, 10}

\* The last n elements of seq: what the daemon serves for opts.Tail = n.
Tailed(seq, n) ==
  IF n >= Len(seq) THEN seq ELSE SubSeq(seq, Len(seq) - n + 1, Len(seq))

InitLogs ==
  /\ OrchIdle
  /\ CPUIdle
  /\ StatIdle
  /\ WatchIdle
  /\ RemoteIdle
  /\ StreamIdle
  /\ logClient \in {"nil", "usable", "down"}
  /\ logName \in LogNames
  /\ logTail \in TailValues
  /\ logFollow \in BOOLEAN
  /\ logWriter \in {"nil", "stdout"}
  /\ logStore \in SeqUpTo(LogLines, MaxLogLines)
  /\ lpc = "start"
  /\ logReader = "none"
  /\ logServed = <<>>
  /\ logOut = <<>>
  /\ logErr = "none"

logArgs == <<logClient, logName, logTail, logFollow, logWriter, logStore>>

\* What the call of a method of *client.Client does with its receiver: the
\* method reads the fields of the client to build its request, so that a nil
\* receiver is dereferenced and the goroutine panics.
Dereferences(cl) == cl = "nil"

\* cli.ContainerLogs(ctx, container, opts): an error when the daemon does not
\* answer or does not know the container, else the reader of the stream.
ContainerLogs ==
  /\ lpc = "start"
  /\ IF Dereferences(logClient)
     THEN lpc' = "panicked" /\ UNCHANGED <<logReader, logServed, logErr>>
     ELSE IF logClient = "down"
     THEN /\ lpc' = "returned"
          /\ logErr' = "Cannot connect to the Docker daemon"
          /\ UNCHANGED <<logReader, logServed>>
     ELSE IF ~Exists(logName)
     THEN /\ lpc' = "returned"
          /\ logErr' = "No such container"
          /\ UNCHANGED <<logReader, logServed>>
     ELSE /\ lpc' = "copy"
          /\ logReader' = "open"
          /\ logServed' = Tailed(logStore, logTail)
          /\ UNCHANGED logErr
  /\ UNCHANGED <<logArgs, logOut, notLog>>

\* io.Copy has read a line and writes it to out; a nil writer panics, and the
\* deferred reader.Close() runs while the goroutine panics.
CopyLine ==
  /\ lpc = "copy"
  /\ logServed # <<>>
  /\ IF logWriter = "nil"
     THEN /\ lpc' = "panicked"
          /\ logReader' = "closed"
          /\ UNCHANGED <<logServed, logOut>>
     ELSE /\ logOut' = Append(logOut, Head(logServed))
          /\ logServed' = Tail(logServed)
          /\ UNCHANGED <<lpc, logReader>>
  /\ UNCHANGED <<logArgs, logErr, notLog>>

\* The stream ends: io.Copy returns nil. With follow the stream ends when the
\* container stops.
CopyEnds ==
  /\ lpc = "copy"
  /\ logServed = <<>>
  /\ logErr' = ""
  /\ lpc' = "closing"
  /\ UNCHANGED <<logArgs, logReader, logServed, logOut, notLog>>

\* A read fails: io.Copy returns the error.
CopyFails ==
  /\ lpc = "copy"
  /\ logErr' = "read error"
  /\ lpc' = "closing"
  /\ UNCHANGED <<logArgs, logReader, logServed, logOut, notLog>>

\* The deferred reader.Close() and the return.
CloseReader ==
  /\ lpc = "closing"
  /\ logReader' = "closed"
  /\ lpc' = "returned"
  /\ UNCHANGED <<logArgs, logServed, logOut, logErr, notLog>>

NextLogs ==
  \/ ContainerLogs
  \/ CopyLine
  \/ CopyEnds
  \/ CopyFails
  \/ CloseReader

SpecLogs == InitLogs /\ [][NextLogs]_vars

\* ======================================================================
\* StreamStats
\* ======================================================================
\* The container ids a caller may pass.
StreamIds == {"web", "db"}

InitStream ==
  /\ OrchIdle
  /\ CPUIdle
  /\ StatIdle
  /\ WatchIdle
  /\ RemoteIdle
  /\ LogIdle
  /\ strJSON \in BOOLEAN
  /\ strIds \in SeqUpTo(StreamIds, MaxContainers)
  /\ spc = "loop"
  /\ si = 1
  /\ strPasses = 0
  /\ ctxDone = FALSE
  /\ passesAtCancel = 0
  /\ strOut = <<>>

streamArgs == <<strJSON, strIds>>

\* A pass starts: the inner loop is entered. Nothing is looked at before it.
PassBegins ==
  /\ spc = "loop"
  /\ strPasses < MaxPasses
  /\ strPasses' = strPasses + 1
  /\ si' = 1
  /\ spc' = "each"
  /\ UNCHANGED <<streamArgs, ctxDone, passesAtCancel, strOut, notStream>>

\* cli.ContainerStatsOneShot(ctx, id) returns an error, as it does for every
\* request made with a cancelled context: the error is printed and the loop
\* continues with the next container.
OneShotFails ==
  /\ spc = "each"
  /\ si <= Len(strIds)
  /\ strOut' = Append(strOut, [id |-> strIds[si], line |-> "error"])
  /\ si' = si + 1
  /\ UNCHANGED <<streamArgs, spc, strPasses, ctxDone, passesAtCancel, notStream>>

\* The daemon answers: the stats are decoded and printed, the body is closed.
OneShotAnswers ==
  /\ spc = "each"
  /\ si <= Len(strIds)
  /\ ~ctxDone
  /\ strOut' = Append(strOut, [id |-> strIds[si],
                               line |-> IF strJSON THEN "json" ELSE "cpu mem"])
  /\ si' = si + 1
  /\ UNCHANGED <<streamArgs, spc, strPasses, ctxDone, passesAtCancel, notStream>>

\* After the inner loop: `break` with useJSON, else time.Sleep(interval). The
\* context is not looked at.
AfterPass(json) == IF json THEN "returned" ELSE "sleep"

PassEnds ==
  /\ spc = "each"
  /\ si > Len(strIds)
  /\ spc' = AfterPass(strJSON)
  /\ UNCHANGED <<streamArgs, si, strPasses, ctxDone, passesAtCancel, strOut,
                 notStream>>

\* time.Sleep returns after the interval, whatever the context.
SleepEnds ==
  /\ spc = "sleep"
  /\ spc' = "loop"
  /\ UNCHANGED <<streamArgs, si, strPasses, ctxDone, passesAtCancel, strOut,
                 notStream>>

\* The caller cancels the context.
CtxCancel ==
  /\ ~ctxDone
  /\ spc # "returned"
  /\ ctxDone' = TRUE
  /\ passesAtCancel' = strPasses
  /\ UNCHANGED <<streamArgs, spc, si, strPasses, strOut, notStream>>

NextStream ==
  \/ PassBegins
  \/ OneShotFails
  \/ OneShotAnswers
  \/ PassEnds
  \/ SleepEnds
  \/ CtxCancel

SpecStream == InitStream /\ [][NextStream]_vars

\* ======================================================================
\* Properties of the probe orchestrator
\* ======================================================================
\* The orchestrator is past wg.Wait().
PastWait == mainpc \in {"present", "alert", "posting", "posthung", "returned"}

AllProbesDone == \A i \in 1..Len(probes) : probes[i].pc = "done"

\* C1: the result collection is read only after every probe launched has
\* appended and finished; it then holds as many results as probes were
\* launched, and what is rendered is that full collection.
C1_ReadAfterAllProbes ==
  PastWait =>
    /\ AllProbesDone
    /\ Len(results) = Len(probes)
    /\ (mainpc # "present" => rendered = results)

\* Two probes ran concurrently and both results were rendered.
C1_Witness ==
  /\ mainpc = "returned"
  /\ Len(probes) = 2
  /\ Len(rendered) = 2

\* C2 (as claimed): every probe of CheckServices ends within its timeout, so
\* CheckServices is never left in wg.Wait() with no step possible.
C2_ProbesEnd == (variant = CS /\ mainpc = "wait") => ENABLED Next

\* A probe of CheckServices that has observed its response.
ClassifiedCS(i) ==
  variant = CS /\ probes[i].pc \notin {"get", "hung"}

\* The detail of the degraded classification at pc "close", where the clock
\* readings are still held.
DetailAtClose(i) == Status("%s (%v)", 0, probes[i].resp.text, probes[i].e2)

\* C3 (as claimed): error gives unreachable; else a status other than 200
\* gives the detail "HTTP {status}"; else 200 at or above the threshold gives
\* the status-and-elapsed detail; else available.
C3_PriorityOriginal ==
  \A i \in 1..Len(probes) : ClassifiedCS(i) =>
    LET p == probes[i] IN
    /\ p.resp.err => p.status = Unreachable
    /\ (~p.resp.err /\ p.resp.code # 200) =>
         p.status = Status("HTTP %d", p.resp.code, "", 0)
    /\ (p.pc = "close" /\ p.resp.code = 200 /\ p.e1 >= threshold) =>
         p.status = DetailAtClose(i)
    /\ (p.pc = "close" /\ p.resp.code = 200 /\ p.e1 < threshold) =>
         p.status = Available

\* C3 (amended): error gives unreachable; else a status other than 200 gives
\* the detail "{status} ({elapsed})" whatever the latency; else 200 at or
\* above the threshold gives that same detail; else available.
C3_Priority ==
  \A i \in 1..Len(probes) : ClassifiedCS(i) =>
    LET p == probes[i] IN
    /\ p.resp.err => p.status = Unreachable
    /\ (~p.resp.err /\ p.resp.code # 200) =>
         /\ p.status.fmt = "%s (%v)"
         /\ p.status.text = p.resp.text
         /\ (p.pc = "close" => p.status = DetailAtClose(i))
    /\ (p.pc = "close" /\ p.resp.code = 200 /\ p.e1 >= threshold) =>
         p.status = DetailAtClose(i)
    /\ (p.pc = "close" /\ p.resp.code = 200 /\ p.e1 < threshold) =>
         p.status = Available

\* A 404 answered faster than the threshold was classified degraded.
C3_Witness ==
  \E i \in 1..Len(probes) :
    /\ variant = CS
    /\ probes[i].pc = "close"
    /\ probes[i].resp.code = 404
    /\ probes[i].e1 < threshold
    /\ probes[i].status.fmt = "%s (%v)"

\* C4: a 200 with elapsed time equal to the threshold is degraded, one with
\* elapsed time one unit below the threshold is available.
C4_Boundary ==
  \A i \in 1..Len(probes) :
    (variant = CS /\ probes[i].pc = "close" /\ probes[i].resp.code = 200) =>
      /\ probes[i].e1 = threshold =>
           (probes[i].status # Available /\ probes[i].status.fmt = "%s (%v)")
      /\ probes[i].e1 = threshold - 1 => probes[i].status = Available

\* One probe observed exactly the threshold, a sibling one unit less.
C4_Witness ==
  \E i, j \in 1..Len(probes) :
    /\ variant = CS
    /\ probes[i].pc = "close" /\ probes[i].resp.code = 200
    /\ probes[i].e1 = threshold
    /\ probes[j].pc = "close" /\ probes[j].resp.code = 200
    /\ probes[j].e1 = threshold - 1

\* The port entries of the docker ps output, as <<line, position>>.
Entries ==
  UNION {{<<l, j>> : j \in 1..Len(LinePorts(lines[l]))} :
           l \in {x \in 1..Len(lines) : LineProbed(lines[x])}}
EntryAt(e) == LinePorts(lines[e[1]])[e[2]]
NameAt(e) == Concat(LineParts(lines[e[1]])[1])

\* The protocol of an entry is its last token; the host port stands before
\* the "->".
TcpTargets == {"80/tcp", "80-81/tcp", "6379/tcp"}
IsTcp(entry) == entry # <<>> /\ entry[Len(entry)] \in TcpTargets
HasHostPort(entry) == Len(Split(entry, "->")) = 2
Probeable(entry) == IsTcp(entry) /\ HasHostPort(entry)
HostPortOf(entry) ==
  LET before == Split(entry, "->")[1] IN before[Len(before)]

\* C5 (as claimed): an entry that is not TCP or has no host port launches no
\* probe and causes no crash, and a container with only such entries
\* contributes no result.
C5_SkipsSilently ==
  /\ mainpc # "panicked"
  /\ \A i \in 1..Len(probes) : Probeable(EntryAt(probes[i].src))
  /\ \A l \in 1..Len(lines) :
       (/\ LineProbed(lines[l])
        /\ \A e \in Entries : e[1] = l => ~Probeable(EntryAt(e)))
       => \A k \in 1..Len(results) :
            results[k].container # Concat(LineParts(lines[l])[1])

\* The (target, host port) pairs of the target list.
ExpectedPairs ==
  {<<NameAt(e), HostPortOf(EntryAt(e))>> : e \in {x \in Entries : Probeable(EntryAt(x))}}
CountResults(pair) ==
  Cardinality({k \in 1..Len(results) :
                 <<results[k].container, results[k].port>> = pair})

\* C6 (as claimed): once the probes are collected there is exactly one
\* result for each (target, host port) pair of the list and none for any
\* other pair.
C6_OneResultPerPair ==
  PastWait =>
    /\ \A pair \in ExpectedPairs : CountResults(pair) = 1
    /\ \A k \in 1..Len(results) :
         <<results[k].container, results[k].port>> \in ExpectedPairs

\* The results that are not available, in the order of the collection.
NotAvailable(r) == r.status.fmt # "available"
Unhealthy == SelectSeq(results, NotAvailable)

\* C7: CheckServices posts exactly one alert for each result that is not
\* available, carrying its container, port and status, none for an available
\* result, and none at all without a webhook.
C7_OneAlertPerUnhealthy ==
  /\ (webhook = "" \/ variant # CS) => posts = <<>>
  /\ (variant = CS /\ webhook # "" /\ mainpc = "returned") => posts = Unhealthy

\* An available and an unavailable result, and one alert.
C7_Witness ==
  /\ variant = CS /\ webhook # "" /\ mainpc = "returned"
  /\ Len(results) = 2
  /\ Len(Unhealthy) = 1
  /\ Len(posts) = 1
  /\ posts[1].container = Unhealthy[1].container
  /\ posts[1].status = Unhealthy[1].status

\* C8: whatever the POSTs return, CheckServices leaves the results as they
\* were presented, returns nil, and has made one POST per unavailable result,
\* each of which returned once.
C8_DispatchFailureDiscarded ==
  /\ (variant = CS /\ mainpc \in {"alert", "posting", "posthung", "returned"}) =>
       results = rendered
  /\ (variant = CS /\ webhook # "" /\ mainpc = "returned") =>
       /\ retErr = ""
       /\ Len(posts) = Len(Unhealthy)
       /\ Len(postLog) = Len(posts)

\* The first of two alerts failed and the second was still dispatched.
C8_Witness ==
  /\ variant = CS /\ mainpc = "returned"
  /\ Len(postLog) = 2
  /\ postLog[1] = "error"
  /\ Len(posts) = 2
  /\ retErr = ""

\* ======================================================================
\* Properties of the CPU sampler
\* ======================================================================
\* C9: when the current CPU total equals the previous one, or the current
\* system usage equals the previous one, the CPU percent is exactly 0.
C9_ZeroOnEqualCounters ==
  (cpupc = "done" /\ (stats.total = stats.preTotal \/ stats.system = stats.preSystem))
    => (cpuOut.num = 0 /\ cpuOut.den > 0)

\* The system usage did not move while the CPU total did, on a CPU count
\* above zero.
C9_Witness ==
  /\ cpupc = "done"
  /\ stats.system = stats.preSystem
  /\ stats.total > stats.preTotal
  /\ stats.ncpu > 0
  /\ cpuOut = Zero

\* C10 (as claimed): when the current value is below the previous one on
\* either counter, the CPU percent is 0.
C10_ZeroOnCounterReset ==
  (cpupc = "done" /\ (stats.total < stats.preTotal \/ stats.system < stats.preSystem))
    => (cpuOut.num = 0 /\ cpuOut.den > 0)

\* ---------------------------------------------------------------- C11
\* C11: a sample whose memory limit is 0 carries no NaN and no infinite
\* memory percent (no division by the zero limit), and a call that took such
\* a sample returns no error.
C11_ZeroLimitUndefined ==
  /\ \A i \in 1..Len(batch) : batch[i].limit = 0 => Finite(batch[i].mem)
  /\ (statpc = "returned" /\ \E i \in 1..Len(batch) : batch[i].limit = 0)
       => statErr = ""

\* ---------------------------------------------------------------- C12
\* C12: every sample has cpuPercent >= 0 and, when its memory limit is
\* greater than 0, a memory percent within [0, 100].
C12_PercentRanges ==
  \A i \in 1..Len(batch) :
    /\ Finite(batch[i].cpu) /\ batch[i].cpu.num >= 0
    /\ batch[i].limit > 0 =>
         /\ batch[i].mem.num >= 0
         /\ batch[i].mem.num <= 100 * batch[i].mem.den

\* ---------------------------------------------------------------- C13
\* C13: the batch showStats hands to its output holds exactly one sample for
\* each container of the list it took, in list order, and no other sample.
C13_OneSamplePerContainer ==
  (statpc = "returned" /\ containers # <<>>) =>
    /\ Len(batch) = Len(containers)
    /\ \A i \in 1..Len(batch) : batch[i].name = TrimSlash(containers[i])

\* ---------------------------------------------------------------- C14
Looping == {"sampling", "rendering", "select", "parked", "signalled", "cancelled"}

\* C14: watchMode reaches its select only after the initial display has run
\* to its end, and every further display has taken a tick of its own: at
\* any time the passes started are one more than the ticks received, and no
\* tick is received that the timer has not sent.
C14_EagerCycleFirst ==
  /\ wpc \in {"select", "parked"} => (cycles >= 1 /\ Len(passLog) = cycles)
  /\ wpc \in {"start", "ticker", "notify", "eager"} => cycles = 0
  /\ wpc = "ticked" => cycles = ticksTaken
  /\ wpc \in Looping => cycles = 1 + ticksTaken
  /\ ticksTaken <= ticks

\* The initial display is over and watchMode waits, with no tick sent yet.
C14_Witness ==
  wpc = "parked" /\ cycles = 1 /\ Len(passLog) = 1 /\ ticks = 0

\* ---------------------------------------------------------------- C15
\* C15: when the first signal arrives while watchMode is blocked in its
\* select with no tick due, watchMode starts no further pass (the passes
\* started stay those that had ended when the signal came) and its return
\* of nil is its next step, which waits for no tick.
C15_CancelWhileWaiting ==
  sigAt = "parked" =>
    /\ wpc \in {"signalled", "cancelled"}
    /\ cycles = cyclesAtSig
    /\ Len(passLog) = cycles
    /\ wpc = "signalled" => ENABLED WatchExit
    /\ wpc = "cancelled" => watchErr = "nil"

\* A signal came during the wait after the initial display and watchMode
\* has returned, with no tick sent at all.
C15_Witness ==
  sigAt = "parked" /\ wpc = "cancelled" /\ cycles = 1 /\ ticks = 0

\* ---------------------------------------------------------------- C16
\* C16: once a signal has reached sigChan, in whatever position of
\* watchMode, watchMode eventually returns nil (given that the goroutine is
\* scheduled, each pass ends and the select is fair to the signal case).
C16_SignalLeadsToCancelled ==
  (sigAt # "none") ~> (wpc = "cancelled" /\ watchErr = "nil")

\* The signal came in the middle of a pass and watchMode has returned nil.
C16_Witness ==
  sigAt \in {"sampling", "rendering"} /\ wpc = "cancelled" /\ watchErr = "nil"

\* ---------------------------------------------------------------- C17
Occurrences(seq, x) == Cardinality({i \in 1..Len(seq) : seq[i] = x})

\* C17: each pass whose status query failed is reported on the terminal
\* exactly once, and the failure does not end watchMode.
C17_FailureReportedOnce ==
  /\ Occurrences(screen, "error") = Occurrences(passLog, "failed")
  /\ wpc = "returned" => watchJSON

\* ---------------------------------------------------------------- C18
\* C18: a remote execute call dials at most one connection, opens at most
\* one session and runs at most one command string, on that session; when
\* it has returned, on success or on error, nothing it opened is still
\* open, a session it opened has run exactly one command, and the session
\* was closed before the connection.
C18_OneSessionClosedInOrder ==
  /\ conns <= 1 /\ sessions <= 1 /\ Len(commands) <= 1
  /\ commands # <<>> => (sessions = 1 /\ commands[1] = CommandString)
  /\ rpc = "returned" =>
       /\ connState # "open" /\ sessState # "open" /\ defers = <<>>
       /\ sessions = 1 => (Len(commands) = 1 /\ closeLog = <<"session", "client">>)
       /\ (sessions = 0 /\ conns = 1) => closeLog = <<"client">>
       /\ conns = 0 => closeLog = <<>>

\* The remote query failed on an open session, and the call has returned
\* with both closed.
C18_Witness ==
  /\ rpc = "returned" /\ remoteErr = "docker ps failed"
  /\ closeLog = <<"session", "client">>

\* ---------------------------------------------------------------- C19
\* C19: an alias resolves only when its configuration has a host name and
\* an identity file; the user of the client configuration is the configured
\* one or else the OS user, and the port of the address is 22 when none is
\* configured.
C19_RequiredFieldsAndDefaults ==
  (hostAlias # "" /\ resolved # NoClient) =>
    /\ aliasCfg.hostname # ""
    /\ aliasCfg.identityfile # <<>>
    /\ resolved.user = (IF aliasCfg.user = "" THEN OSUser ELSE aliasCfg.user)
    /\ aliasCfg.port = "" => resolved.addr[3] = "22"

\* ---------------------------------------------------------------- C20
\* C20: when the resolution of the configuration fails, the command ends
\* at once with that error and has dialled no connection, opened no session
\* and run no remote query.
C20_ResolutionErrorAborts ==
  resolveErr # "" =>
    /\ rpc \in {"returned", "exited"}
    /\ remoteErr \in {resolveErr, "SSH config error: " \o resolveErr}
    /\ conns = 0 /\ sessions = 0 /\ commands = <<>>
    /\ connState = "none" /\ sessState = "none"

\* A malformed user@host has ended remoteStatus or RemoteCmd.
C20_Witness ==
  /\ remoteFn \in {RS, RC}
  /\ resolveErr = "Invalid user@host"
  /\ rpc = "returned"

\* ------------------------------------------------------------------------ C22
\* C22: a failed docker ps aborts the whole cycle and is surfaced as the
\* returned error: the error is set exactly when the orchestrator has returned
\* at the listing, and then no probe was launched, no result collected or
\* presented, and no alert posted.
C22_ListingFailureAborts ==
  /\ retErr # "" => mainpc = "failed"
  /\ mainpc = "failed" =>
       /\ retErr = "docker ps failed"
       /\ probes = <<>>
       /\ wg = 0
       /\ results = <<>>
       /\ rendered = <<>>
       /\ posts = <<>>

\* The listing failed in an invocation whose output, had it been read, names a
\* line that would have been probed, with a webhook configured.
C22_Witness ==
  /\ mainpc = "failed"
  /\ retErr = "docker ps failed"
  /\ variant = CS
  /\ webhook # ""
  /\ \E l \in 1..Len(lines) : LineProbed(lines[l])

\* ------------------------------------------------------------------------ C24
\* The steps of a probe goroutine that perform I/O: the HTTP request and the
\* closing of the response body.
DoingIO(i) == probes[i].pc \in {"get", "do", "close", "closeLocked", "hung"}

\* C24: no probe goroutine performs I/O while it holds the result lock: the
\* holder of the mutex is at the append or at the unlock.
C24_LockOnlyAroundAppend ==
  \A i \in 1..Len(probes) : mu = i => ~DoingIO(i)

\* ------------------------------------------------------------------------ C25
InPass == {"sampling", "rendering"}

\* C25: a signal never interrupts a pass in progress: from Sampling or
\* Rendering watchMode only goes on with the pass or to the select, a signal
\* is taken out of sigChan only at the select, and whenever watchMode has
\* returned every pass that was started has ended.
C25_PassNeverInterrupted ==
  [][/\ wpc \in InPass => wpc' \in InPass \cup {"select"}
     /\ (sigPending /\ ~sigPending') => wpc = "select"
     /\ wpc' = "signalled" => wpc \in {"select", "parked", "signalled"}
     /\ wpc' \in {"cancelled", "returned"} => Len(passLog') = cycles']_vars

\* The signal arrived during the second pass, which ended with its status
\* rendered before watchMode returned.
C25_Witness ==
  /\ sigAt = "sampling"
  /\ cyclesAtSig = 2
  /\ wpc = "cancelled"
  /\ Len(passLog) = 2
  /\ passLog[2] = "ok"

\* ------------------------------------------------------------------------ C26
\* C26: a signal that arrived while a pass was running is acted on at the next
\* select: no further pass is started after it, also with a tick due.
C26_NoPassAfterSignalInPass ==
  sigAt \in InPass => cycles = cyclesAtSig

\* ------------------------------------------------------------------------ C30
\* What a command that was refused at its entry has left behind: nothing.
NoWatchEffect ==
  /\ cycles = 0
  /\ passLog = <<>>
  /\ screen = <<>>
  /\ ~tickerOn
  /\ ~notifyOn

\* C30 as stated, for every watchMode: invoked with JSON output it returns
\* the error "watch mode not supported with JSON output" before any effect.
C30_JsonRefusedOriginal ==
  watchJSON =>
    /\ wpc \in {"start", "returned", "killed"}
    /\ wpc = "returned" => watchErr = "watch mode not supported with JSON output"
    /\ NoWatchEffect

\* C30: the watchMode that reads the json flag, invoked with JSON output,
\* returns the error "watch mode not supported with JSON output" before any
\* effect: no pass is run, nothing is written to the screen, no ticker and no
\* signal handler are set up.
C30_JsonRefusedBeforeAnyEffect ==
  (watchFn = WM /\ watchJSON) =>
    /\ wpc \in {"start", "returned", "killed"}
    /\ wpc = "returned" => watchErr = "watch mode not supported with JSON output"
    /\ wpc # "returned" => watchErr = "none"
    /\ NoWatchEffect

\* The first watchMode has returned the error.
C30_Witness ==
  /\ watchFn = WM
  /\ watchJSON
  /\ wpc = "returned"
  /\ watchErr = "watch mode not supported with JSON output"

\* ------------------------------------------------------------------------ C28
\* C28: CheckServices dispatches no alert before every probe has ended and
\* the results were presented; the alerts are posted one at a time, each POST
\* having returned before the next is made, in the order of the collection.
C28_AlertsAfterPresentInOrder ==
  /\ posts # <<>> =>
       /\ variant = CS
       /\ mainpc \in {"alert", "posting", "posthung", "returned"}
       /\ AllProbesDone
       /\ Len(results) = Len(probes)
       /\ rendered = results
  /\ Len(posts) = Len(postLog) + (IF mainpc \in {"posting", "posthung"} THEN 1 ELSE 0)
  /\ Len(posts) <= Len(Unhealthy)
  /\ \A k \in 1..Len(posts) :
       k <= Len(Unhealthy) => posts[k] = AlertBody(Unhealthy[k])

\* The second of two alerts is in flight after the first POST returned, with
\* both probes ended and their results presented.
C28_Witness ==
  /\ variant = CS
  /\ mainpc = "posting"
  /\ Len(results) = 2
  /\ rendered = results
  /\ Len(posts) = 2
  /\ Len(postLog) = 1
  /\ posts[1] # posts[2]

\* ------------------------------------------------------------------------ C21
\* C21: no option of any remote command selects the acceptance of an
\* unverified host key, so every client configuration that is built verifies
\* the host key against known_hosts.
C21_HostKeyVerifiedByDefault ==
  resolved # NoClient => resolved.hostKey = "knownhosts"

\* ------------------------------------------------------------------------ C29
\* C29: the address resolved for an alias carries the port that the
\* configuration gives for the alias, and 22 when it gives none.
C29_AliasPortUsed ==
  (hostAlias # "" /\ resolved # NoClient) =>
    resolved.addr[3] = (IF aliasCfg.port = "" THEN "22" ELSE aliasCfg.port)

\* ------------------------------------------------------------------------ C23
\* C23: whenever the named container does not exist, with or without a usable
\* client, TailContainerLogs returns a non-nil error as its value and writes
\* no log output.
C23_MissingContainerIsReturnedError ==
  (~Exists(logName) /\ lpc \notin {"idle", "start"}) =>
    /\ lpc = "returned"
    /\ logErr \notin {"none", ""}
    /\ logOut = <<>>

\* ------------------------------------------------------------------------ C27
\* C27: once the context of a continuous StreamStats is cancelled, no further
\* sampling pass is started.
C27_NoPassAfterCancel ==
  (~strJSON /\ ctxDone) => strPasses = passesAtCancel

====
